---- MODULE Spec2Model ----
(***************************************************************************)
(* Model of ci/ray_ci/doc/module.py: class Module, the depth-first walk    *)
(* over a package's object graph that collects the annotated APIs.         *)
(*                                                                         *)
(* Python strings are modelled as sequences of chunks (<<"pkg", ".",       *)
(* "internal">> is 'pkg.internal', <<"pkg", "other">> is 'pkgother').  The *)
(* chunks are chosen prefix-free, so equality, concatenation (\o) and      *)
(* str.startswith on the chunk sequences agree with the strings.           *)
(***************************************************************************)
EXTENDS Integers, Sequences, FiniteSets, TLC

(***************************************************************************)
(* Bounds of the model.                                                    *)
(***************************************************************************)
\* depth of nested _walk frames at which the interpreter raises RecursionError
RecursionLimit == 7
\* number of get_apis() calls made on the one Module instance
MaxCalls == 2

(***************************************************************************)
(* The objects of the graph: modules, classes, functions.                  *)
(***************************************************************************)
Dot == <<".">>
None == "None"
Unreadable == "<getattr raises>"
NoValue == "<no _annotated_type.value>"

ModuleIds == {"pkg", "pkg.internal", "pkg.helpers", "pkg.helpers.util", "pkgother", "ext"}
ClassIds == {"Widget", "Inner", "ExtC", "OtherC", "Orphan"}
FunctionIds == {"util", "deep"}
Entities == ClassIds \cup FunctionIds
ObjIds == ModuleIds \cup Entities
Containers == ModuleIds \cup ClassIds

\* type(obj): what inspect.ismodule / isclass / isfunction tell apart
Kind(o) ==
  IF o \in ModuleIds THEN "module"
  ELSE IF o \in ClassIds THEN "class"
  ELSE IF o \in FunctionIds THEN "function"
  ELSE "other"

ismodule(o) == Kind(o) = "module"
isclass(o) == Kind(o) = "class"
isfunction(o) == Kind(o) = "function"

\* module.__name__
ModName(m) ==
  CASE m = "pkg" -> <<"pkg">>
    [] m = "pkg.internal" -> <<"pkg", ".", "internal">>
    [] m = "pkg.helpers" -> <<"pkg", ".", "helpers">>
    [] m = "pkg.helpers.util" -> <<"pkg", ".", "helpers", ".", "util">>
    [] m = "pkgother" -> <<"pkg", "other">>
    [] m = "ext" -> <<"ext">>

\* attribute.__module__ of a class or function: the name of the defining module
DunderModule(e) ==
  CASE e = "Widget" -> <<"pkg", ".", "internal">>
    [] e = "Inner" -> <<"pkg", ".", "internal">>
    [] e = "ExtC" -> <<"ext">>
    [] e = "OtherC" -> <<"pkg", "other">>
    [] e = "Orphan" -> <<"nowhere">>
    [] e = "util" -> <<"pkg", ".", "helpers">>
    [] e = "deep" -> <<"pkg", ".", "helpers", ".", "util">>

\* attribute.__qualname__
Qualname(e) ==
  CASE e = "Widget" -> <<"Widget">>
    [] e = "Inner" -> <<"Widget", ".", "Inner">>
    [] e = "ExtC" -> <<"ExtC">>
    [] e = "OtherC" -> <<"OtherC">>
    [] e = "Orphan" -> <<"Orphan">>
    [] e = "util" -> <<"util">>
    [] e = "deep" -> <<"deep">>

\* the closed enumeration of annotation categories
AnnotationType == {"PUBLIC_API", "DEVELOPER_API", "DEPRECATED"}
CodeType == {"CLASS", "FUNCTION"}

\* the module passed to Module(...)
RootModule == "pkg"

(***************************************************************************)
(* Member names, in code-point order (upper case sorts before lower case): *)
(* dir() returns the names of an object sorted.                            *)
(***************************************************************************)
MemberNames ==
  <<"ExtC", "Inner", "Orphan", "OtherC", "Widget", "bad", "deep", "ext", "helpers",
    "internal", "pkg", "pkgother", "util">>

NameRank(n) == CHOOSE i \in 1..Len(MemberNames) : MemberNames[i] = n

RECURSIVE SortNames(_)
SortNames(S) ==
  IF S = {} THEN <<>>
  ELSE LET first == CHOOSE n \in S : \A k \in S : NameRank(n) <= NameRank(k)
       IN <<first>> \o SortNames(S \ {first})

\* str.startswith
StartsWith(s, prefix) ==
  /\ Len(prefix) <= Len(s)
  /\ SubSeq(s, 1, Len(prefix)) = prefix

(***************************************************************************)
(* The object graphs walked.  An edge <<c, n, t>> says that container c    *)
(* has a member named n whose value is t (Unreadable: getattr raises).     *)
(***************************************************************************)
MembersOf(edges) ==
  [c \in Containers |-> {[name |-> e[2], target |-> e[3]] : e \in {x \in edges : x[1] = c}}]

\* pkg re-exports pkg.internal.Widget; pkg.helpers.util is not re-exported
GScenario ==
  { <<"pkg", "Widget", "Widget">>, <<"pkg", "helpers", "pkg.helpers">>,
    <<"pkg", "internal", "pkg.internal">>,
    <<"pkg.internal", "Widget", "Widget">>,
    <<"pkg.helpers", "util", "util">> }

\* pkg.helpers imports pkg back: two namespaces referencing each other
GCycle ==
  { <<"pkg", "helpers", "pkg.helpers">>,
    <<"pkg.helpers", "pkg", "pkg">>, <<"pkg.helpers", "util", "util">> }

\* pkg references the external namespaces ext and pkgother and their classes
GExternal ==
  { <<"pkg", "ext", "ext">>, <<"pkg", "ExtC", "ExtC">>,
    <<"pkg", "pkgother", "pkgother">>,
    <<"ext", "ExtC", "ExtC">>,
    <<"pkgother", "OtherC", "OtherC">> }

\* a class nested in a class, and a class whose defining module is not loaded
GNested ==
  { <<"pkg", "internal", "pkg.internal">>,
    <<"pkg.internal", "Widget", "Widget">>, <<"pkg.internal", "Orphan", "Orphan">>,
    <<"Widget", "Inner", "Inner">> }

\* a member of pkg.helpers whose attribute access raises
GUnreadable ==
  { <<"pkg", "Widget", "Widget">>, <<"pkg", "helpers", "pkg.helpers">>,
    <<"pkg", "internal", "pkg.internal">>,
    <<"pkg.internal", "Widget", "Widget">>,
    <<"pkg.helpers", "bad", Unreadable>>, <<"pkg.helpers", "util", "util">> }

\* pkg re-exports the function pkg.helpers.util, whose canonical name is also
\* the name of the loaded module pkg.helpers.util, in which deep is defined
GModuleAlias ==
  { <<"pkg", "helpers", "pkg.helpers">>, <<"pkg", "util", "util">>,
    <<"pkg.helpers", "deep", "deep">>, <<"pkg.helpers", "util", "util">> }

Graphs == {GScenario, GCycle, GExternal, GNested, GUnreadable, GModuleAlias}

EntitiesOfGraph(edges) == {e[3] : e \in edges} \cap Entities

\* what the decorator of an annotated entity sets: _annotated and
\* _annotated_type.value; "bogus" is a value outside AnnotationType
Unmarked == [annotated |-> FALSE, value |-> NoValue]
MarkerChoices ==
  {Unmarked} \cup
  {[annotated |-> TRUE, value |-> v] : v \in AnnotationType \cup {"bogus", NoValue}}

(***************************************************************************)
(* State.  members and marker are the object graph; _visited and _apis are *)
(* the fields of the Module instance; stack is the chain of active _walk   *)
(* frames, each with the object walked and the position i of its for loop  *)
(* in dir(module) (0: the body has not started).                           *)
(***************************************************************************)
VARIABLES
  members,     \* [container -> set of [name, target]]: what dir/getattr give
  marker,      \* [entity -> [annotated, value]]: the annotation attributes
  _visited,    \* self._visited
  _apis,       \* self._apis: sequence of API(name, annotation_type, code_type)
  stack,       \* active _walk frames, outermost first
  status,      \* "idle", "running", "returned", "raised"
  error,       \* the exception that ended the last call, or None ("MemberError":
               \* whatever the failing attribute access raised)
  calls,       \* number of get_apis() calls started
  apiOf,       \* history: apiOf[k] is the entity _apis[k] was appended for
  enumerated,  \* history: how often the for loop over dir(o) was entered
  current,     \* which of the two Module instances the variables above show
  other,       \* the fields and the crawl position of the other instance
  heap,        \* release/ray_release/buildkite/step.py: the dicts of
               \* DEFAULT_STEP_TEMPLATE and of the step of the last get_step call
  outcome      \* how the last get_step call ended: "none", "returned", "NameError"

vars ==
  <<members, marker, _visited, _apis, stack, status, error, calls, apiOf, enumerated,
    current, other, heap, outcome>>

\* the state of release/ray_release/buildkite/step.py
release == <<heap, outcome>>

\* the second instance, untouched by the steps of the one that runs
second == <<current, other>>

graph == <<members, marker>>

\* an object as a member of a Python set, and the value of its __hash__
\* attribute: a method-wrapper bound to a module, and for a class the slot
\* wrapper object.__hash__ that every class inherits
Object(o) == [tag |-> "object", of |-> o]
DunderHash(o) ==
  IF isclass(o) THEN [tag |-> "wrapper_descriptor", of |-> "object"]
  ELSE [tag |-> "method-wrapper", of |-> o]

\* the sort lost: the member names in the opposite order
RECURSIVE Reversed(_)
Reversed(q) == IF q = <<>> THEN <<>> ELSE Reversed(Tail(q)) \o <<Head(q)>>
Dir_unsorted(o) == Reversed(SortNames({m.name : m \in members[o]}))

\* dir(o): the member names of o, sorted
Dir(o) == SortNames({m.name : m \in members[o]})

\* getattr(o, name)
GetAttr(o, name) == (CHOOSE m \in members[o] : m.name = name).target

\* inspect.getmodule(o): a module is its own module; a class or function
\* belongs to the loaded module named by its __module__, None if there is none
getmodule(o) ==
  IF ismodule(o) THEN o
  ELSE IF \E m \in ModuleIds : ModName(m) = DunderModule(o)
       THEN CHOOSE m \in ModuleIds : ModName(m) = DunderModule(o)
       ELSE None

\* the boundary check lost: every object with a module counts as a valid child
_is_valid_child_unbounded(o) == getmodule(o) # None

_is_valid_child(o) ==
  LET module == getmodule(o)
  IN IF module = None THEN FALSE
     ELSE StartsWith(ModName(module), ModName(RootModule))

_is_api(o) == _is_valid_child(o) /\ marker[o].annotated

\* AnnotationType(module._annotated_type.value): the exception it raises, or None
AnnotationTypeError(o) ==
  IF marker[o].value = NoValue THEN "AttributeError"
  ELSE IF marker[o].value \notin AnnotationType THEN "ValueError"
  ELSE None

_get_annotation_type(o) == marker[o].value

\* a dict as a set of <<key, value>> pairs; d[k] = v replaces the entry of k
DictSet(d, k, v) == {p \in d : p[1] # k} \cup {<<k, v>>}
DictKeys(d) == {p[1] : p \in d}
DictGet(d, k) == (CHOOSE p \in d : p[1] = k)[2]

Fullname(e) == DunderModule(e) \o Dot \o Qualname(e)

RECURSIVE AliasesFrom(_, _)
AliasesFrom(names, aliases) ==
  IF names = <<>> THEN aliases
  ELSE LET attribute == GetAttr(RootModule, Head(names))
       IN IF ~isclass(attribute) /\ ~isfunction(attribute)
          THEN AliasesFrom(Tail(names), aliases)
          ELSE AliasesFrom(Tail(names),
                 DictSet(aliases, Fullname(attribute),
                         ModName(RootModule) \o Dot \o Qualname(attribute)))

_get_aliases == AliasesFrom(Dir(RootModule), {})

\* getattr(self._module, child) raises inside _get_aliases
AliasesRaise == \E m \in members[RootModule] : m.target = Unreadable

\* the alias lookup lost: always the canonical dotted name
_fullname_canonical(attribute, aliases) ==
  DunderModule(attribute) \o Dot \o Qualname(attribute)

\* the second rule lost: no alias through the defining module's name
_fullname_no_module_alias(attribute, aliases) ==
  LET fullname == DunderModule(attribute) \o Dot \o Qualname(attribute)
  IN IF fullname \in DictKeys(aliases) THEN DictGet(aliases, fullname)
     ELSE fullname

_fullname(attribute, aliases) ==
  LET module == DunderModule(attribute)
      name == Qualname(attribute)
      fullname == module \o Dot \o name
  IN IF fullname \in DictKeys(aliases) THEN DictGet(aliases, fullname)
     ELSE IF module \in DictKeys(aliases)
          THEN DictGet(aliases, module) \o Dot \o name
          ELSE fullname

API(name, annotation_type, code_type) ==
  [name |-> name, annotation_type |-> annotation_type, code_type |-> code_type]

(***************************************************************************)
(* release/ray_release/buildkite/step.py.  A dict is a function from its    *)
(* keys; the dicts get_step writes into are objects of the heap, referred   *)
(* to by address <<owner, part>>: step["env"], step["agents"] and           *)
(* step["plugins"][0][DOCKER_PLUGIN_KEY] (part "plugins") of the template   *)
(* and of the step a call builds.  A formatted string is the tuple of its   *)
(* pieces.                                                                  *)
(***************************************************************************)
EmptyDict == [k \in {} |-> None]
DictUpdate(d, e) ==
  [k \in DOMAIN d \cup DOMAIN e |-> IF k \in DOMAIN e THEN e[k] ELSE d[k]]
SetItem(d, k, v) == DictUpdate(d, k :> v)

DEFAULT_ARTIFACTS_DIR_HOST == "/tmp/ray_release_test_artifacts"
RELEASE_QUEUE_DEFAULT == "str(RELEASE_QUEUE_DEFAULT)"
RELEASE_QUEUE_CLIENT == "str(RELEASE_QUEUE_CLIENT)"

Parts == {"top", "env", "agents", "plugins"}
\* the keys of the top dict whose values are dicts get_step writes into
RefKeys == {"env", "agents", "plugins"}
TemplateAddrs == {<<"template", part>> : part \in Parts}
StepAddrs == {<<"step", part>> : part \in Parts}

DEFAULT_STEP_TEMPLATE == <<"template", "top">>

TemplateHeap ==
  [a \in TemplateAddrs |->
    CASE a[2] = "top" ->
           [ env |-> <<"template", "env">>,
             agents |-> <<"template", "agents">>,
             plugins |-> <<"template", "plugins">>,
             artifact_paths |-> <<DEFAULT_ARTIFACTS_DIR_HOST, "/**/*">>,
             priority |-> 0,
             retry |-> [automatic |->
                          <<[exit_status |-> "BUILDKITE_RETRY_CODE or 79",
                             limit |-> "BUILDKITE_MAX_RETRIES or 1"]>>] ]
      [] a[2] = "env" ->
           [ ANYSCALE_CLOUD_ID |-> "str(DEFAULT_CLOUD_ID)",
             ANYSCALE_PROJECT |-> "str(DEFAULT_ANYSCALE_PROJECT)",
             RELEASE_AWS_BUCKET |-> "str(RELEASE_AWS_BUCKET)",
             RELEASE_AWS_LOCATION |-> "dev",
             RELEASE_AWS_DB_NAME |-> "ray_ci",
             RELEASE_AWS_DB_TABLE |-> "release_test_result",
             AWS_REGION |-> "us-west-2" ]
      [] a[2] = "agents" -> [queue |-> RELEASE_QUEUE_DEFAULT]
      [] a[2] = "plugins" ->
           [ image |-> <<"rayproject/ray">>,
             propagate_environment |-> TRUE,
             volumes |->
               << "/var/lib/buildkite/builds:/var/lib/buildkite/builds",
                  "/usr/local/bin/buildkite-agent:/usr/local/bin/buildkite-agent",
                  <<DEFAULT_ARTIFACTS_DIR_HOST, ":", DEFAULT_ARTIFACTS_DIR_HOST>> >>,
             environment |-> <<"BUILDKITE_BUILD_PATH=/var/lib/buildkite/builds">> ] ]

\* the names bound in the module step.py: its imports and its definitions
ModuleGlobals ==
  { "copy", "os", "Any", "Dict", "Optional", "RELEASE_AWS_BUCKET",
    "get_concurrency_group", "DEFAULT_ANYSCALE_PROJECT", "DEFAULT_CLOUD_ID",
    "DEFAULT_PYTHON_VERSION", "Test", "as_smoke_test", "parse_python_version",
    "DEFAULT_ENVIRONMENT", "load_environment", "get_test_env_var",
    "python_version_str", "DeferredEnvVar", "ExitCode",
    "DEFAULT_ARTIFACTS_DIR_HOST", "RELEASE_QUEUE_DEFAULT", "RELEASE_QUEUE_CLIENT",
    "DOCKER_PLUGIN_KEY", "DEFAULT_STEP_TEMPLATE", "get_step" }

\* copy.copy: a new top dict whose values are the template's own dicts
copy_shallow(h, src) ==
  (<<"step", "top">> :> h[src]) @@ [a \in TemplateAddrs |-> h[a]]

\* copy.deepcopy of the dict at src: new dicts for the top and for every part
deepcopy(h, src) ==
  [a \in StepAddrs |->
     IF a[2] = "top"
     THEN [k \in DOMAIN h[src] |->
             IF k \in RefKeys THEN <<"step", h[src][k][2]>> ELSE h[src][k]]
     ELSE h[h[src][a[2]]]]
  @@ [a \in TemplateAddrs |-> h[a]]

\* the test records (the keys get_step reads; None: the key is absent)
Tests ==
  { [name |-> "test_a", env |-> None, python |-> None, run_type |-> None, stable |-> None],
    [name |-> "test_b", env |-> "staging", python |-> "3.9", run_type |-> "client",
     stable |-> FALSE],
    [name |-> "test_c", env |-> None, python |-> "3.8", run_type |-> "job",
     stable |-> TRUE] }

\* the env argument of get_step
EnvOverrides == {EmptyDict, [RELEASE_AWS_LOCATION |-> "prod"]}

\* what load_environment(env_to_use) may return
LoadedEnvironments(env_to_use) ==
  {EmptyDict, [ANYSCALE_HOST |-> <<"host of ", env_to_use>>]}

\* what get_concurrency_group(test) may return
ConcurrencyGroups == {<<"small", "limit small">>, <<"large", "limit large">>}

\* what get_test_env_var("RAY_COMMIT") may return ("": not set)
Commits == {"", "0123456789abcdef"}

\* commit[:7]
First7(commit) == IF commit = "" THEN "" ELSE <<commit, "[:7]">>

\* d[k] = v and d.update(e) on the dict that key part of the step refers to
StepSetItem(h, part, k, v) ==
  LET a == h[<<"step", "top">>][part] IN [h EXCEPT ![a] = SetItem(@, k, v)]
StepUpdate(h, part, e) ==
  LET a == h[<<"step", "top">>][part] IN [h EXCEPT ![a] = DictUpdate(@, e)]
\* step[k] = v
TopSetItem(h, k, v) == [h EXCEPT ![<<"step", "top">>] = SetItem(@, k, v)]

\* lines 73-123 of get_step: the step as it is before the retry rule is set
StepBeforeRetry(test, report, smoke_test, ray_wheels, env, priority_val, no_report_override, env_dict0, group) ==
  LET cmd == <<"./release/run_release_test.sh", test.name>>
               \o (IF report /\ ~no_report_override THEN <<"--report">> ELSE <<>>)
               \o (IF smoke_test THEN <<"--smoke-test">> ELSE <<>>)
               \o (IF ray_wheels # None THEN <<"--ray-wheels", ray_wheels>> ELSE <<>>)
      env_dict == DictUpdate(env_dict0, env)
      python_version ==
        IF test.python # None THEN test.python ELSE "DEFAULT_PYTHON_VERSION"
      image == <<"rayproject/ray:nightly-py", python_version>>
      h0 == deepcopy(heap, DEFAULT_STEP_TEMPLATE)
      h1 == StepSetItem(h0, "plugins", "command", cmd)
      h2 == StepUpdate(h1, "env", env_dict)
      h3 == StepSetItem(h2, "plugins", "image", image)
      h4 == TopSetItem(TopSetItem(TopSetItem(h3, "concurrency_group", group[1]),
                                  "concurrency", group[2]),
                       "priority", priority_val)
  IN IF test.run_type = "client"
     THEN StepSetItem(h4, "agents", "queue", RELEASE_QUEUE_CLIENT)
     ELSE h4

\* lines 126-148 of get_step: the retry rule, soft_fail and the label
StepFinished(h, test, smoke_test, commit) ==
  LET h6 == TopSetItem(h, "retry",
              [automatic |->
                 <<[exit_status |-> "BuildkiteExitCode.TRANSIENT_INFRA_ERROR.value",
                    limit |-> 2]>>])
      stable == IF test.stable = None THEN TRUE ELSE test.stable
      h7 == IF stable THEN h6 ELSE TopSetItem(h6, "soft_fail", TRUE)
      label == IF commit # "" THEN First7(commit) ELSE "RAY_BRANCH"
      full_label ==
        (IF stable THEN <<>> ELSE <<"[unstable] ">>) \o <<test.name>>
          \o (IF smoke_test THEN <<" [smoke test] ">> ELSE <<>>)
          \o <<" (", label, ")">>
  IN TopSetItem(h7, "label", full_label)

get_step ==
  \E test \in Tests, report \in BOOLEAN, smoke_test \in BOOLEAN,
     ray_wheels \in {None, "wheels"}, env \in EnvOverrides, priority_val \in {0, 1},
     no_report_override \in BOOLEAN :
  \E env_dict0 \in LoadedEnvironments(IF test.env = None THEN "DEFAULT_ENVIRONMENT"
                                        ELSE test.env),
     group \in ConcurrencyGroups :
    /\ IF "BuildkiteExitCode" \notin ModuleGlobals
       THEN /\ heap' = StepBeforeRetry(test, report, smoke_test, ray_wheels, env,
                         priority_val, no_report_override, env_dict0, group)
            /\ outcome' = "NameError"
       ELSE \E commit \in Commits :
            /\ heap' = StepFinished(
                         StepBeforeRetry(test, report, smoke_test, ray_wheels, env,
                           priority_val, no_report_override, env_dict0, group),
                         test, smoke_test, commit)
            /\ outcome' = "returned"
    /\ UNCHANGED <<graph, _visited, _apis, stack, status, error, calls, apiOf,
                   enumerated, second>>

(***************************************************************************)
(* The initial state: two Module instances just constructed for the root of   *)
(* one of the graphs, with any marking of the graph's classes and          *)
(* functions, and step.py just imported.                                   *)
(***************************************************************************)
\* _apis = [] written in the class body: one list for all instances
InstanceAttrs_class_level == {"_module", "_visited"}

\* the attributes __init__ binds on self: one object per instance
InstanceAttrs == {"_module", "_visited", "_apis"}

\* Module.__init__: the fields and crawl position of a new instance
NewModule ==
  [ _visited |-> {}, _apis |-> <<>>, apiOf |-> <<>>,
    stack |-> <<>>, status |-> "idle", error |-> None, calls |-> 0,
    enumerated |-> [o \in Containers |-> 0] ]

Init ==
  /\ \E g \in Graphs :
       /\ members = MembersOf(g)
       /\ \E mk \in [EntitiesOfGraph(g) -> MarkerChoices] :
            marker = [e \in Entities |->
                        IF e \in EntitiesOfGraph(g) THEN mk[e] ELSE Unmarked]
  /\ _visited = {}
  /\ _apis = <<>>
  /\ stack = <<>>
  /\ status = "idle"
  /\ error = None
  /\ calls = 0
  /\ apiOf = <<>>
  /\ enumerated = [o \in Containers |-> 0]
  /\ current = 1
  /\ other = NewModule
  /\ heap = TemplateHeap
  /\ outcome = "none"

Top == stack[Len(stack)]
Frame(o) == [module |-> o, i |-> 0]

\* the frames after the innermost _walk returns, and after the loop of the
\* innermost frame moves on to its next child
Popped == SubSeq(stack, 1, Len(stack) - 1)
Advanced == [stack EXCEPT ![Len(stack)].i = @ + 1]

\* an exception propagates through every frame out of get_apis()
Raise(e) ==
  /\ stack' = <<>>
  /\ status' = "raised"
  /\ error' = e

Return ==
  /\ stack' = Popped
  /\ status' = IF Len(stack) = 1 THEN "returned" ELSE status
  /\ error' = error

\* self._walk(attribute) called from the loop of the innermost frame
Call(attribute) ==
  IF Len(stack) >= RecursionLimit THEN Raise("RecursionError")
  ELSE /\ stack' = Advanced \o <<Frame(attribute)>>
       /\ UNCHANGED <<status, error>>

\* get_apis() -> walk() -> _walk(self._module)
get_apis ==
  /\ status \in {"idle", "returned", "raised"}
  /\ calls < MaxCalls
  /\ calls' = calls + 1
  /\ stack' = <<Frame(RootModule)>>
  /\ status' = "running"
  /\ error' = None
  /\ UNCHANGED <<graph, _visited, _apis, apiOf, enumerated>>
  /\ UNCHANGED <<second, release>>

\* _walk, from its entry up to the for loop
WalkEnter ==
  /\ status = "running"
  /\ Top.i = 0
  /\ IF Object(Top.module) \in _visited
     THEN /\ Return
          /\ UNCHANGED <<_visited, enumerated>>
     ELSE /\ _visited' = _visited \cup {DunderHash(Top.module)}
          /\ IF AliasesRaise
             THEN /\ Raise("MemberError")
                  /\ UNCHANGED enumerated
             ELSE IF ~_is_valid_child(Top.module)
             THEN /\ Return
                  /\ UNCHANGED enumerated
             ELSE /\ stack' = Advanced
                  /\ enumerated' = [enumerated EXCEPT ![Top.module] = @ + 1]
                  /\ UNCHANGED <<status, error>>
  /\ UNCHANGED <<graph, _apis, apiOf, calls>>
  /\ UNCHANGED <<second, release>>

InLoop ==
  /\ status = "running"
  /\ Top.i \in 1..Len(Dir(Top.module))

Child == GetAttr(Top.module, Dir(Top.module)[Top.i])

\* attribute = getattr(module, child) raises
ChildUnreadable ==
  /\ InLoop
  /\ Child = Unreadable
  /\ Raise("MemberError")
  /\ UNCHANGED <<graph, _visited, _apis, apiOf, calls, enumerated>>
  /\ UNCHANGED <<second, release>>

\* inspect.ismodule(attribute)
ChildModule ==
  /\ InLoop
  /\ ismodule(Child)
  /\ Call(Child)
  /\ UNCHANGED <<graph, _visited, _apis, apiOf, calls, enumerated>>
  /\ UNCHANGED <<second, release>>

\* the code type of the class branch copied into the function branch
AppendAPI_class(code_type) ==
  /\ _apis' = Append(_apis,
                API(_fullname(Child, _get_aliases), _get_annotation_type(Child), "CLASS"))
  /\ apiOf' = Append(apiOf, Child)

\* the record inserted at the front of the list
AppendAPI_prepend(code_type) ==
  /\ _apis' = <<API(_fullname(Child, _get_aliases), _get_annotation_type(Child), code_type)>>
                \o _apis
  /\ apiOf' = <<Child>> \o apiOf

\* the append of an API record for the child, when it is an API
AppendAPI(code_type) ==
  /\ _apis' = Append(_apis,
                API(_fullname(Child, _get_aliases), _get_annotation_type(Child), code_type))
  /\ apiOf' = Append(apiOf, Child)

\* a class that is an API is recorded but not walked
ChildClass_skip_marked ==
  /\ InLoop
  /\ isclass(Child)
  /\ IF _is_api(Child) /\ AnnotationTypeError(Child) # None
     THEN /\ Raise(AnnotationTypeError(Child))
          /\ UNCHANGED <<_apis, apiOf>>
     ELSE IF _is_api(Child)
     THEN /\ AppendAPI("CLASS")
          /\ stack' = Advanced
          /\ UNCHANGED <<status, error>>
     ELSE /\ UNCHANGED <<_apis, apiOf>>
          /\ Call(Child)
  /\ UNCHANGED <<graph, _visited, calls, enumerated>>
  /\ UNCHANGED <<second, release>>

\* inspect.isclass(attribute)
ChildClass ==
  /\ InLoop
  /\ isclass(Child)
  /\ IF _is_api(Child) /\ AnnotationTypeError(Child) # None
     THEN /\ Raise(AnnotationTypeError(Child))
          /\ UNCHANGED <<_apis, apiOf>>
     ELSE /\ IF _is_api(Child) THEN AppendAPI("CLASS") ELSE UNCHANGED <<_apis, apiOf>>
          /\ Call(Child)
  /\ UNCHANGED <<graph, _visited, calls, enumerated>>
  /\ UNCHANGED <<second, release>>

\* inspect.isfunction(attribute)
ChildFunction ==
  /\ InLoop
  /\ isfunction(Child)
  /\ IF _is_api(Child) /\ AnnotationTypeError(Child) # None
     THEN /\ Raise(AnnotationTypeError(Child))
          /\ UNCHANGED <<_apis, apiOf>>
     ELSE /\ IF _is_api(Child) THEN AppendAPI("FUNCTION") ELSE UNCHANGED <<_apis, apiOf>>
          /\ stack' = Advanced
          /\ UNCHANGED <<status, error>>
  /\ UNCHANGED <<graph, _visited, calls, enumerated>>
  /\ UNCHANGED <<second, release>>

\* the for loop is exhausted: _walk returns
WalkReturn ==
  /\ status = "running"
  /\ Top.i > Len(Dir(Top.module))
  /\ Return
  /\ UNCHANGED <<graph, _visited, _apis, apiOf, calls, enumerated>>
  /\ UNCHANGED <<second, release>>

Next ==
  \/ get_apis
  \/ WalkEnter
  \/ ChildUnreadable
  \/ ChildModule
  \/ ChildClass
  \/ ChildFunction
  \/ WalkReturn

Spec == Init /\ [][Next]_vars

(***************************************************************************)
(* Two crawls on two Module instances over the same graph, their steps     *)
(* interleaved.  The variables show the instance whose crawl takes the     *)
(* next step; Switch passes control to the other one.  An attribute that   *)
(* __init__ binds on self is an object of the instance and is exchanged;   *)
(* an attribute not bound there would be one object seen by both.          *)
(***************************************************************************)
Own(attr, mine, theirs) == IF attr \in InstanceAttrs THEN theirs ELSE mine

Switch ==
  /\ current' = 3 - current
  /\ _visited' = Own("_visited", _visited, other._visited)
  /\ _apis' = Own("_apis", _apis, other._apis)
  /\ apiOf' = Own("_apis", apiOf, other.apiOf)
  /\ stack' = other.stack
  /\ status' = other.status
  /\ error' = other.error
  /\ calls' = other.calls
  /\ enumerated' = other.enumerated
  /\ other' = [ _visited |-> _visited, _apis |-> _apis, apiOf |-> apiOf,
                stack |-> stack, status |-> status, error |-> error, calls |-> calls,
                enumerated |-> enumerated ]
  /\ UNCHANGED <<graph, release>>

TwoNext ==
  \/ Next
  \/ Switch

(***************************************************************************)
(* get_step called any number of times, with any arguments.                *)
(***************************************************************************)
StepInit ==
  /\ Init
  /\ members = MembersOf(GScenario)
  /\ marker = [e \in Entities |-> Unmarked]

StepNext == get_step

StepSpec == StepInit /\ [][StepNext]_vars

\* the graphs the two crawls are run on
TwoGraphs == {GScenario, GCycle, GUnreadable, GModuleAlias}

TwoInit ==
  /\ Init
  /\ members \in {MembersOf(g) : g \in TwoGraphs}

TwoSpec == TwoInit /\ [][TwoNext]_vars

(***************************************************************************)
(* Properties.                                                             *)
(***************************************************************************)
\* the crawl domain as a dotted path: the root or a descendant of the root
InDomain(name) ==
  \/ name = ModName(RootModule)
  \/ StartsWith(name, ModName(RootModule) \o Dot)

\* the name of the namespace owning o, None when it cannot be determined
OwnerName(o) == IF getmodule(o) = None THEN None ELSE ModName(getmodule(o))

\* the objects that are members of something in the graph, and the root
InGraph == {RootModule} \cup ({m.target : m \in UNION {members[c] : c \in Containers}} \cap ObjIds)

FirstWalkDone == calls = 1 /\ status = "returned"

\* C1: the walk from the root terminates on every finite graph, cyclic ones
\* included: the recursion of _walk completes, it never descends until the
\* interpreter's depth limit ends it.
C1_WalkTerminates == error # "RecursionError"

\* C2: during one walk the members of a namespace or type are enumerated at
\* most once, however many member paths lead to it.
C2_EnumeratedAtMostOnce ==
  calls = 1 => \A o \in Containers : enumerated[o] <= 1

\* C3: in the result of one walk no two API records stem from the same entity.
C3_OneRecordPerEntity ==
  calls = 1 => \A i, j \in DOMAIN apiOf : i # j => apiOf[i] # apiOf[j]

\* C4: _is_valid_child is true of an object exactly when the dotted name of
\* its owning namespace is the root's name or starts with the root's name
\* followed by a dot; an undeterminable owner gives false.
C4_BoundaryIsDottedPath ==
  \A o \in InGraph :
    _is_valid_child(o) <=> (OwnerName(o) # None /\ InDomain(OwnerName(o)))

\* C5: an external namespace X that is a direct member of the root (X's name
\* does not start with the root's name) is never descended into, and no class
\* or function defined in X gets a record, marked or not, referenced by the
\* root or not.
C5_ExternalNamespacePruned ==
  \A m \in members[RootModule] :
    (ismodule(m.target) /\ ~StartsWith(ModName(m.target), ModName(RootModule)))
      => /\ enumerated[m.target] = 0
         /\ \A k \in DOMAIN apiOf : DunderModule(apiOf[k]) # ModName(m.target)

\* C5 witness: a finished walk of a root that references the external
\* namespace ext and, directly, the validly marked class ext.ExtC; the walk
\* called _walk on ext.
C5_Witness ==
  /\ FirstWalkDone
  /\ [name |-> "ext", target |-> "ext"] \in members[RootModule]
  /\ [name |-> "ExtC", target |-> "ExtC"] \in members[RootModule]
  /\ [name |-> "ExtC", target |-> "ExtC"] \in members["ext"]
  /\ marker["ExtC"].annotated
  /\ marker["ExtC"].value \in AnnotationType
  /\ DunderHash("ext") \in _visited

\* C6: a marker whose value is no member of AnnotationType (or whose value is
\* missing) does not make the walk fail: the entity counts as unmarked.
C6_BadMarkerTolerated ==
  /\ error \notin {"ValueError", "AttributeError"}
  /\ FirstWalkDone =>
       \A e \in Entities :
         (marker[e].annotated /\ marker[e].value \notin AnnotationType)
           => \A k \in DOMAIN apiOf : apiOf[k] # e

\* C7: a member whose attribute access raises is skipped: the walk does not
\* raise because of it.
C7_UnreadableMemberSkipped == error # "MemberError"

\* C8: every record emitted for an entity E that is defined in a
\* sub-namespace of the root R and is a direct member of R is named
\* R.<qualified name of E>, never by E's canonical name.
C8_ReexportNamedByAlias ==
  \A m \in members[RootModule] :
    ( /\ m.target \in Entities
      /\ StartsWith(DunderModule(m.target), ModName(RootModule) \o Dot) )
      => \A k \in DOMAIN apiOf :
            apiOf[k] = m.target
              => /\ _apis[k].name = ModName(RootModule) \o Dot \o Qualname(m.target)
                 /\ _apis[k].name # Fullname(m.target)

\* C8 witness: a finished walk that emitted a record for pkg.internal.Widget
\* when it met it as a member of pkg.internal, Widget being re-exported by pkg.
C8_Witness ==
  /\ FirstWalkDone
  /\ [name |-> "Widget", target |-> "Widget"] \in members[RootModule]
  /\ [name |-> "Widget", target |-> "Widget"] \in members["pkg.internal"]
  /\ enumerated["pkg.internal"] = 1
  /\ \E k \in DOMAIN apiOf : k > 1 /\ apiOf[k] = "Widget"

\* the scenario: pkg with pkg.internal and pkg.helpers, pkg.internal.Widget
\* marked PUBLIC_API and re-exported by pkg, pkg.helpers.util marked DEPRECATED
IsScenario ==
  /\ members = MembersOf(GScenario)
  /\ marker["Widget"] = [annotated |-> TRUE, value |-> "PUBLIC_API"]
  /\ marker["util"] = [annotated |-> TRUE, value |-> "DEPRECATED"]

\* C9: in the scenario the walk returns exactly the two records
\* {pkg.Widget, PUBLIC_API, class} and {pkg.helpers.util, DEPRECATED, function}.
C9_ScenarioTwoRecords ==
  (IsScenario /\ FirstWalkDone)
    => /\ Len(_apis) = 2
       /\ {_apis[k] : k \in DOMAIN _apis} =
            { API(<<"pkg", ".", "Widget">>, "PUBLIC_API", "CLASS"),
              API(<<"pkg", ".", "helpers", ".", "util">>, "DEPRECATED", "FUNCTION") }

\* C10: every record belongs to an entity that carries the marker and lies
\* inside the crawl domain (the root or a descendant of it by dotted path).
C10_RecordsMarkedAndInDomain ==
  \A k \in DOMAIN apiOf :
    /\ marker[apiOf[k]].annotated
    /\ OwnerName(apiOf[k]) # None
    /\ InDomain(OwnerName(apiOf[k]))

\* C11: every record's code kind is the kind of the entity it was emitted for
\* and its annotation type is the category declared by that entity's marker.
C11_KindAndAnnotationFidelity ==
  \A k \in DOMAIN apiOf :
    /\ _apis[k].code_type = (IF isclass(apiOf[k]) THEN "CLASS" ELSE "FUNCTION")
    /\ _apis[k].annotation_type = marker[apiOf[k]].value
    /\ _apis[k].annotation_type \in AnnotationType

\* C11 witness: a finished walk with a record for a class and a record for a
\* function, of different annotation categories.
C11_Witness ==
  /\ FirstWalkDone
  /\ \E i, j \in DOMAIN apiOf :
       /\ isclass(apiOf[i]) /\ isfunction(apiOf[j])
       /\ _apis[i].annotation_type # _apis[j].annotation_type

\* the alias table: one entry per class or function that is a direct member of
\* the root, from its canonical name to root name + "." + qualified name
AliasTable ==
  { <<DunderModule(m.target) \o Dot \o Qualname(m.target),
      ModName(RootModule) \o Dot \o Qualname(m.target)>> :
      m \in {x \in members[RootModule] : x.target \in Entities} }

AliasOf(key) == (CHOOSE p \in AliasTable : p[1] = key)[2]
HasAlias(key) == \E p \in AliasTable : p[1] = key

\* the three-way naming rule
RuleName(e) ==
  IF HasAlias(DunderModule(e) \o Dot \o Qualname(e))
  THEN AliasOf(DunderModule(e) \o Dot \o Qualname(e))
  ELSE IF HasAlias(DunderModule(e))
  THEN AliasOf(DunderModule(e)) \o Dot \o Qualname(e)
  ELSE DunderModule(e) \o Dot \o Qualname(e)

\* C12: the name of every record follows the three-way rule over the alias
\* table of the root's direct class and function members; the table used is
\* that one at every node of the walk (members of sub-namespaces add nothing).
C12_NameByThreeWayRule ==
  /\ \A k \in DOMAIN apiOf : _apis[k].name = RuleName(apiOf[k])
  /\ status = "running" => _get_aliases = AliasTable

\* C12 witness: a finished walk with a record named by the alias of the entity
\* (pkg.util) and one named through the alias of its defining module's name
\* (pkg.util.deep).
C12_Witness ==
  /\ FirstWalkDone
  /\ \E i, j \in DOMAIN apiOf :
       /\ apiOf[i] = "util" /\ _apis[i].name = <<"pkg", ".", "util">>
       /\ apiOf[j] = "deep" /\ _apis[j].name = <<"pkg", ".", "util", ".", "deep">>

\* the namespaces and types reachable from the root through a chain of
\* namespaces and types that lie in the dotted-path domain
RECURSIVE ReachFrom(_, _)
ReachFrom(S, n) ==
  IF n = 0 THEN S
  ELSE ReachFrom(
         S \cup {t \in Containers :
                   /\ \E c \in S : \E m \in members[c] : m.target = t
                   /\ OwnerName(t) # None
                   /\ InDomain(OwnerName(t))},
         n - 1)

Reach == ReachFrom({RootModule}, Cardinality(Containers))

ReachedEntities ==
  {e \in Entities : \E c \in Reach : \E m \in members[c] : m.target = e}

\* C13: when a walk returns, every marked class or function that is defined in
\* the domain and reachable through in-domain namespaces and types has a
\* record; types are checked and walked, marked or not; functions are never
\* walked.
C13_MarkedReachableRecorded ==
  /\ status = "returned" =>
       /\ \A e \in ReachedEntities :
            (marker[e].annotated /\ OwnerName(e) # None /\ InDomain(OwnerName(e)))
              => \E k \in DOMAIN apiOf : apiOf[k] = e
       /\ \A c \in Reach : enumerated[c] >= 1
  /\ \A i \in DOMAIN stack : ~isfunction(stack[i].module)

\* C13 witness: a finished walk that recorded the marked type Widget and the
\* marked type Inner nested in it.
C13_Witness ==
  /\ FirstWalkDone
  /\ [name |-> "Inner", target |-> "Inner"] \in members["Widget"]
  /\ marker["Widget"].annotated
  /\ marker["Inner"].annotated
  /\ enumerated["Widget"] >= 1
  /\ enumerated["Inner"] >= 1
  /\ \E i, j \in DOMAIN apiOf : apiOf[i] = "Widget" /\ apiOf[j] = "Inner"

\* depth-first order with the members of each node taken in the order of
\* their names: the entities recorded by a walk of o that meets no exception
RECURSIVE DFSOrder(_, _)
RECURSIVE DFSMembers(_, _, _)
DFSOrder(o, fuel) ==
  IF fuel = 0 \/ ~_is_valid_child(o) THEN <<>>
  ELSE DFSMembers(o, SortNames({m.name : m \in members[o]}), fuel)
DFSMembers(o, names, fuel) ==
  IF names = <<>> THEN <<>>
  ELSE LET a == (CHOOSE m \in members[o] : m.name = Head(names)).target
       IN (IF a \in Entities /\ _is_api(a) THEN <<a>> ELSE <<>>)
          \o (IF a \in Containers THEN DFSOrder(a, fuel - 1) ELSE <<>>)
          \o DFSMembers(o, Tail(names), fuel)

\* C14: the output is in depth-first visitation order with the members of each
\* namespace or type taken in lexicographic order of name; it is a function of
\* the graph alone, so walks from fresh instances agree.
C14_DepthFirstLexicographic ==
  FirstWalkDone => apiOf = DFSOrder(RootModule, RecursionLimit)

\* C14 witness: a finished walk in which the records found under the member
\* helpers precede the record of the later-named member util.
C14_Witness ==
  /\ FirstWalkDone
  /\ apiOf = <<"deep", "util", "util">>

\* C15: a second get_apis() call on the same instance adds nothing to the list.
C15_SecondCallAddsNothing == [][calls = 2 => _apis' = _apis]_vars

\* C16: every step leaves the object graph (members and markers) unchanged,
\* and the result list only grows by appending.
C16_GraphReadOnly ==
  [][ /\ members' = members
      /\ marker' = marker
      /\ Len(_apis') >= Len(_apis)
      /\ SubSeq(_apis', 1, Len(_apis)) = _apis ]_vars

\* C16 witness: a walk has appended a second, different record.
C16_Witness ==
  /\ Len(_apis) >= 2
  /\ _apis[1] # _apis[2]

\* C17: two crawls on two Module instances share no mutable state: a step of
\* one crawl leaves the other instance's visited set and result list as they
\* are, each instance finds its own fields as it left them when it goes on, and
\* a crawl that returns has the result of a crawl run alone.
C17_CrawlsIndependent ==
  /\ [](FirstWalkDone => apiOf = DFSOrder(RootModule, RecursionLimit))
  /\ []((FirstWalkDone /\ other.calls = 1 /\ other.status = "returned")
          => _apis = other._apis)
  /\ [][ /\ current' = current => other' = other
         /\ current' # current =>
              /\ _visited' = other._visited /\ _apis' = other._apis
              /\ other'._visited = _visited /\ other'._apis = _apis ]_vars

\* C17 witness: the first crawl of one instance returns with its records while
\* the crawl of the other instance, started before, is in the middle of its
\* walk and has appended records of its own.
C17_Witness ==
  /\ FirstWalkDone
  /\ Len(_apis) >= 2
  /\ other.calls = 1
  /\ other.status = "running"
  /\ Len(other.stack) >= 2
  /\ Len(other._apis) >= 1

\* C18: get_step returns, for every test, a step whose retry policy is the
\* single automatic rule for the transient-infra-error exit status with limit
\* 2, and which carries label, priority, concurrency group and queue.
C18_StepWithRetryRule ==
  outcome # "none" =>
    /\ outcome = "returned"
    /\ heap[<<"step", "top">>].retry =
         [automatic |->
            <<[exit_status |-> "BuildkiteExitCode.TRANSIENT_INFRA_ERROR.value",
               limit |-> 2]>>]
    /\ {"label", "priority", "concurrency_group", "concurrency"}
         \subseteq DOMAIN heap[<<"step", "top">>]
    /\ "queue" \in DOMAIN heap[heap[<<"step", "top">>].agents]

\* C19: after any sequence of get_step calls DEFAULT_STEP_TEMPLATE is as it was
\* defined: every dict of the template has its initial contents, and the step
\* of a call shares no dict with the template.
C19_TemplateUnchanged ==
  /\ \A a \in TemplateAddrs : heap[a] = TemplateHeap[a]
  /\ outcome # "none" =>
       \A k \in RefKeys : heap[<<"step", "top">>][k] \notin TemplateAddrs

\* C19 witness: a call has written an env override of a template key, the
\* command, the image and the client queue into its step.
C19_Witness ==
  /\ outcome # "none"
  /\ heap[heap[<<"step", "top">>].env].RELEASE_AWS_LOCATION = "prod"
  /\ "command" \in DOMAIN heap[heap[<<"step", "top">>].plugins]
  /\ heap[heap[<<"step", "top">>].plugins].image # <<"rayproject/ray">>
  /\ heap[heap[<<"step", "top">>].agents].queue = RELEASE_QUEUE_CLIENT
  /\ heap[<<"step", "top">>].priority = 1

====
